---- MODULE Spec2Model ----
(***************************************************************************)
(* Model of filter_conllu_boilerplate.py: the streaming record segmenter   *)
(* and prefix filter (filter_conllu_stream) with its two pure helpers      *)
(* (matches_boilerplate, extract_text_from_record).                        *)
(*                                                                         *)
(* Strings are sequences of one-character strings, so that slicing,        *)
(* stripping and prefix tests are computed character by character.         *)
(***************************************************************************)
EXTENDS Integers, Sequences, FiniteSets

\* ------------------------------------------------------------------------
\* Bounds of the model
\* ------------------------------------------------------------------------
MaxLines == 4

MaxPatterns == 2

MaxRecordLines == 2

\* ------------------------------------------------------------------------
\* Characters and Python string primitives
\* ------------------------------------------------------------------------
LF == "\n"

CR == "\r"

SP == " "

TAB == "\t"

\* characters removed by str.strip() with no argument
Whitespace == {SP, TAB, LF, CR}

\* characters removed by str.rstrip("\r\n")
LineTerminators == {CR, LF}

RECURSIVE LStrip(_)
LStrip(s) ==
    IF s = <<>> THEN <<>>
    ELSE IF Head(s) \in Whitespace THEN LStrip(Tail(s)) ELSE s

RECURSIVE RStripChars(_, _)
RStripChars(s, chars) ==
    IF s = <<>> THEN <<>>
    ELSE IF s[Len(s)] \in chars THEN RStripChars(SubSeq(s, 1, Len(s) - 1), chars)
         ELSE s

\* str.strip(): leading and trailing whitespace removed
Strip(s) == RStripChars(LStrip(s), Whitespace)

\* str.startswith(prefix)
StartsWith(s, prefix) ==
    /\ Len(prefix) <= Len(s)
    /\ \A i \in 1..Len(prefix) : s[i] = prefix[i]

\* s[n:]
SliceFrom(s, n) == IF n >= Len(s) THEN <<>> ELSE SubSeq(s, n + 1, Len(s))

\* "".join(lines)
RECURSIVE Join(_)
Join(lines) == IF lines = <<>> THEN <<>> ELSE Head(lines) \o Join(Tail(lines))

\* ------------------------------------------------------------------------
\* matches_boilerplate
\* ------------------------------------------------------------------------
\* variant: the loop returns after testing the first pattern only
matches_boilerplate_first_only(text, pats) ==
    IF pats = <<>> THEN FALSE ELSE StartsWith(text, Head(pats))

\* variant: the result of the last test replaces the earlier ones
matches_boilerplate_last_only(text, pats) ==
    IF pats = <<>> THEN FALSE ELSE StartsWith(text, pats[Len(pats)])

RECURSIVE matches_boilerplate(_, _)
matches_boilerplate(text, pats) ==
    IF pats = <<>> THEN FALSE
    ELSE IF StartsWith(text, Head(pats)) THEN TRUE
         ELSE matches_boilerplate(text, Tail(pats))

\* ------------------------------------------------------------------------
\* extract_text_from_record
\* An optional string is a sequence of length 0 (None) or 1 (the value).
\* ------------------------------------------------------------------------
None == <<>>

Some(s) == <<s>>

TextMarker == <<"#", " ", "t", "e", "x", "t", " ", "=", " ">>

MarkerSkip == 9

\* variant: the field is stripped of all trailing whitespace
RECURSIVE extract_text_rstrip_all(_)
extract_text_rstrip_all(record_lines) ==
    IF record_lines = <<>> THEN None
    ELSE IF StartsWith(Head(record_lines), TextMarker)
         THEN Some(RStripChars(SliceFrom(Head(record_lines), MarkerSkip), Whitespace))
         ELSE extract_text_rstrip_all(Tail(record_lines))

RECURSIVE extract_text_from_record(_)
extract_text_from_record(record_lines) ==
    IF record_lines = <<>> THEN None
    ELSE IF StartsWith(Head(record_lines), TextMarker)
         THEN Some(RStripChars(SliceFrom(Head(record_lines), MarkerSkip), LineTerminators))
         ELSE extract_text_from_record(Tail(record_lines))

\* ------------------------------------------------------------------------
\* filter_conllu_stream: helpers
\* ------------------------------------------------------------------------
\* variant: only the line terminators are stripped before the test
IsSeparator_terminators_only(l) == RStripChars(l, LineTerminators) = <<>>

\* line.strip() == ""
IsSeparator(l) == Strip(l) = <<>>

\* variant: a record without a text line is not kept
KeepRecord_absent_dropped(record_lines, pats) ==
    LET text == extract_text_from_record(record_lines)
    IN  IF text = None THEN FALSE ELSE ~matches_boilerplate(text[1], pats)

\* text is None or not matches_boilerplate(text, patterns)
KeepRecord(record_lines, pats) ==
    LET text == extract_text_from_record(record_lines)
    IN  IF text = None THEN TRUE ELSE ~matches_boilerplate(text[1], pats)

\* variant: the first line of the record is left out of the join
JoinRecord_skip_first(record_lines) ==
    IF record_lines = <<>> THEN <<>> ELSE Join(Tail(record_lines))

\* "".join(current_record), the text handed to outfile.write
JoinRecord(record_lines) == Join(record_lines)

\* index of the last character of the line that starts after position p
LineEnd(content, p) ==
    CHOOSE q \in (p + 1)..Len(content) :
        /\ content[q] = LF \/ q = Len(content)
        /\ \A r \in (p + 1)..(q - 1) : content[r] # LF

\* the next line yielded by iterating the file from position p
NextLine(content, p) == SubSeq(content, p + 1, LineEnd(content, p))

\* every line the file iterator yields for the given content
RECURSIVE AllLines(_)
AllLines(content) ==
    IF content = <<>> THEN <<>>
    ELSE LET e == LineEnd(content, 0)
         IN  <<SubSeq(content, 1, e)>> \o AllLines(SliceFrom(content, e))

\* ------------------------------------------------------------------------
\* Inputs: file contents built from a small pool of lines, pattern lists
\* built from a small pool of prefixes
\* ------------------------------------------------------------------------
LineBlank == <<LF>>

LineSpaces == <<SP, LF>>

LineToken == <<"a", LF>>

LineTextD == TextMarker \o <<"D", LF>>

LineTextA == TextMarker \o <<"a", LF>>

\* lines that end with a terminator: may stand anywhere in the file
TerminatedLines == {LineBlank, LineSpaces, LineToken, LineTextD, LineTextA}

\* the last line of a file may lack its terminator
UnterminatedLines == {<<"a">>, TextMarker \o <<"D">>}

BoundedSeqs(S, n) == UNION {[1..k -> S] : k \in 0..n}

InputLineSeqs ==
    {ls \in BoundedSeqs(TerminatedLines \cup UnterminatedLines, MaxLines) :
        \A i \in 1..(Len(ls) - 1) : ls[i] \in TerminatedLines}

Inputs == {Join(ls) : ls \in InputLineSeqs}

\* pattern lists: none, one prefix, the empty prefix, two prefixes in both orders
PatternLists ==
    {<<>>,
     <<<<"D">>>>,
     <<<<>>>>,
     <<<<"D">>, <<"a">>>>,
     <<<<"a">>, <<"D">>>>}

\* ------------------------------------------------------------------------
\* State of one invocation of filter_conllu_stream (and of its caller)
\* ------------------------------------------------------------------------
VARIABLES
    infile,          \* content of the file opened for reading
    patterns,        \* the pattern list passed in
    pos,             \* number of characters the line iterator has consumed
    line,            \* loop variable: the line most recently read
    current_record,  \* lines accumulated for the record being assembled
    outfile,         \* content written to the output file so far
    total,           \* counter incremented for every record written
    removed,         \* counter incremented for every record discarded
    pc,              \* position in filter_conllu_stream
    run,             \* 1 for the first invocation, 2 for a re-run on its output
    returned,        \* tuples returned to the caller so far, one per invocation
    records,         \* history: the records handed to the keep/drop decision
    text,            \* argument of a direct call of matches_boilerplate
    result,          \* value returned by a direct call of a helper
    written,         \* contents of the output files of the finished invocations
    argv,            \* main: the input and output paths given on the command line
    disk             \* main: content of each file when main starts or opens it

vars == <<infile, patterns, pos, line, current_record, outfile, total, removed,
          pc, run, returned, records, text, result, written, argv, disk>>

Init ==
    /\ infile \in Inputs
    /\ patterns \in PatternLists
    /\ pos = 0
    /\ line = <<>>
    /\ current_record = <<>>
    /\ outfile = <<>>
    /\ total = 0
    /\ removed = 0
    /\ pc = "loop"
    /\ run = 1
    /\ returned = <<>>
    /\ records = <<>>
    /\ text = <<>>
    /\ result = None
    /\ written = <<>>
    /\ argv = <<>>
    /\ disk = <<>>

\* for line in infile: one iteration up to the keep/drop decision
ReadLine ==
    /\ pc = "loop"
    /\ pos < Len(infile)
    /\ LET l == NextLine(infile, pos)
       IN  /\ line' = l
           /\ pos' = pos + Len(l)
           /\ IF IsSeparator(l)
              THEN /\ pc' = IF current_record # <<>> THEN "decide" ELSE "loop"
                   /\ records' = IF current_record # <<>>
                                 THEN Append(records, current_record)
                                 ELSE records
                   /\ UNCHANGED current_record
              ELSE /\ current_record' = Append(current_record, l)
                   /\ pc' = "loop"
                   /\ UNCHANGED records
    /\ UNCHANGED <<infile, patterns, outfile, total, removed, run, returned,
                   text, result,
                   written, argv, disk>>

\* variant: the write replaces what the output held
WriteRecord_overwrites ==
    /\ pc = "decide"
    /\ KeepRecord(current_record, patterns)
    /\ outfile' = JoinRecord(current_record)
    /\ pc' = "newline"
    /\ UNCHANGED <<infile, patterns, pos, line, current_record, total, removed,
                   run, returned, records, text, result,
                   written, argv, disk>>

\* keep branch, first write: outfile.write("".join(current_record))
WriteRecord ==
    /\ pc = "decide"
    /\ KeepRecord(current_record, patterns)
    /\ outfile' = outfile \o JoinRecord(current_record)
    /\ pc' = "newline"
    /\ UNCHANGED <<infile, patterns, pos, line, current_record, total, removed,
                   run, returned, records, text, result,
                   written, argv, disk>>

\* variant: the buffer is not emptied after a record is written
WriteNewline_no_reset ==
    /\ pc = "newline"
    /\ outfile' = outfile \o <<LF>>
    /\ total' = total + 1
    /\ pc' = "loop"
    /\ UNCHANGED <<infile, patterns, pos, line, current_record, removed, run,
                   returned, records, text, result,
                   written, argv, disk>>

\* variant: after a record is written the separator that closed it is read again
WriteNewline_rereads ==
    /\ pc = "newline"
    /\ outfile' = outfile \o <<LF>>
    /\ total' = total + 1
    /\ current_record' = <<>>
    /\ pos' = pos - Len(line)
    /\ pc' = "loop"
    /\ UNCHANGED <<infile, patterns, line, removed, run, returned, records,
                   text, result,
                   written, argv, disk>>

\* keep branch, second write, counter, buffer reset
WriteNewline ==
    /\ pc = "newline"
    /\ outfile' = outfile \o <<LF>>
    /\ total' = total + 1
    /\ current_record' = <<>>
    /\ pc' = "loop"
    /\ UNCHANGED <<infile, patterns, pos, line, removed, run, returned, records,
                   text, result,
                   written, argv, disk>>

\* variant: a dropped record leaves an empty line in the output
DropRecord_placeholder ==
    /\ pc = "decide"
    /\ ~KeepRecord(current_record, patterns)
    /\ outfile' = outfile \o <<LF>>
    /\ removed' = removed + 1
    /\ current_record' = <<>>
    /\ pc' = "loop"
    /\ UNCHANGED <<infile, patterns, pos, line, total, run, returned,
                   records, text, result,
                   written, argv, disk>>

\* drop branch: nothing written, counter, buffer reset
DropRecord ==
    /\ pc = "decide"
    /\ ~KeepRecord(current_record, patterns)
    /\ removed' = removed + 1
    /\ current_record' = <<>>
    /\ pc' = "loop"
    /\ UNCHANGED <<infile, patterns, pos, line, outfile, total, run, returned,
                   records, text, result,
                   written, argv, disk>>

\* variant: the lines left in the buffer at the end of input are forgotten
EndOfInput_skips_last ==
    /\ pc = "loop"
    /\ pos = Len(infile)
    /\ pc' = "return"
    /\ UNCHANGED <<infile, patterns, pos, line, current_record, outfile, total,
                   removed, run, returned, records, text, result,
                   written, argv, disk>>

\* the iterator is exhausted: fall out of the loop to the last-record check
EndOfInput ==
    /\ pc = "loop"
    /\ pos = Len(infile)
    /\ pc' = IF current_record # <<>> THEN "final_decide" ELSE "return"
    /\ records' = IF current_record # <<>>
                  THEN Append(records, current_record)
                  ELSE records
    /\ UNCHANGED <<infile, patterns, pos, line, current_record, outfile, total,
                   removed, run, returned, text, result,
                   written, argv, disk>>

FinalWriteRecord ==
    /\ pc = "final_decide"
    /\ KeepRecord(current_record, patterns)
    /\ outfile' = outfile \o JoinRecord(current_record)
    /\ pc' = "final_newline"
    /\ UNCHANGED <<infile, patterns, pos, line, current_record, total, removed,
                   run, returned, records, text, result,
                   written, argv, disk>>

\* variant: the last record is written without the newline after it
FinalWriteNewline_missing ==
    /\ pc = "final_newline"
    /\ total' = total + 1
    /\ pc' = "return"
    /\ UNCHANGED <<infile, patterns, pos, line, current_record, outfile, removed,
                   run, returned, records, text, result,
                   written, argv, disk>>

\* variant: the last record is followed by two newlines
FinalWriteNewline_doubled ==
    /\ pc = "final_newline"
    /\ outfile' = outfile \o <<LF, LF>>
    /\ total' = total + 1
    /\ pc' = "return"
    /\ UNCHANGED <<infile, patterns, pos, line, current_record, removed, run,
                   returned, records, text, result,
                   written, argv, disk>>

\* the buffer is not reset after the last record
FinalWriteNewline ==
    /\ pc = "final_newline"
    /\ outfile' = outfile \o <<LF>>
    /\ total' = total + 1
    /\ pc' = "return"
    /\ UNCHANGED <<infile, patterns, pos, line, current_record, removed, run,
                   returned, records, text, result,
                   written, argv, disk>>

\* variant: a dropped last record is not counted
FinalDropRecord_uncounted ==
    /\ pc = "final_decide"
    /\ ~KeepRecord(current_record, patterns)
    /\ pc' = "return"
    /\ UNCHANGED <<infile, patterns, pos, line, current_record, outfile, total,
                   removed, run, returned, records, text, result,
                   written, argv, disk>>

\* drop branch for the last record: the buffer is not reset
FinalDropRecord ==
    /\ pc = "final_decide"
    /\ ~KeepRecord(current_record, patterns)
    /\ removed' = removed + 1
    /\ pc' = "return"
    /\ UNCHANGED <<infile, patterns, pos, line, current_record, outfile, total,
                   run, returned, records, text, result,
                   written, argv, disk>>

\* variant: the two counters are returned in the other order
Return_swapped ==
    /\ pc = "return"
    /\ returned' = Append(returned, <<removed, total>>)
    /\ written' = Append(written, outfile)
    /\ pc' = "done"
    /\ UNCHANGED <<infile, patterns, pos, line, current_record, outfile, total,
                   removed, run, records, text, result, argv, disk>>

\* return total, removed
Return ==
    /\ pc = "return"
    /\ returned' = Append(returned, <<total, removed>>)
    /\ written' = Append(written, outfile)
    /\ pc' = "done"
    /\ UNCHANGED <<infile, patterns, pos, line, current_record, outfile, total,
                   removed, run, records, text, result, argv, disk>>

\* the tool is invoked again, with the same patterns, on the file it wrote:
\* the locals are initialised afresh and the new output file is truncated
Rerun ==
    /\ pc = "done"
    /\ run = 1
    /\ infile' = outfile
    /\ outfile' = <<>>
    /\ pos' = 0
    /\ line' = <<>>
    /\ current_record' = <<>>
    /\ total' = 0
    /\ removed' = 0
    /\ pc' = "loop"
    /\ run' = 2
    /\ records' = <<>>
    /\ UNCHANGED <<patterns, returned, text, result,
                   written, argv, disk>>

Next ==
    \/ ReadLine
    \/ WriteRecord
    \/ WriteNewline
    \/ DropRecord
    \/ EndOfInput
    \/ FinalWriteRecord
    \/ FinalWriteNewline
    \/ FinalDropRecord
    \/ Return
    \/ Rerun

Spec == Init /\ [][Next]_vars

\* ------------------------------------------------------------------------
\* A second invocation on the same input with the pattern list rearranged
\* ------------------------------------------------------------------------
\* the orderings of a pattern list
Permutations(pats) ==
    LET n == Len(pats)
        bij == {f \in [1..n -> 1..n] : \A a, b \in 1..n : a # b => f[a] # f[b]}
    IN  {[i \in 1..n |-> pats[f[i]]] : f \in bij}

\* a pattern list with one of its entries repeated at the end
Duplicated(pats) == {Append(pats, pats[i]) : i \in DOMAIN pats}

Rearranged(pats) == (Permutations(pats) \cup Duplicated(pats)) \ {pats}

\* the tool is invoked again on the same input file with the same patterns
\* given in another order or with a repeated entry
RerunRearranged ==
    /\ pc = "done"
    /\ run = 1
    /\ patterns' \in Rearranged(patterns)
    /\ outfile' = <<>>
    /\ pos' = 0
    /\ line' = <<>>
    /\ current_record' = <<>>
    /\ total' = 0
    /\ removed' = 0
    /\ pc' = "loop"
    /\ run' = 2
    /\ records' = <<>>
    /\ UNCHANGED <<infile, returned, text, result, written, argv, disk>>

NextRearranged ==
    \/ ReadLine
    \/ WriteRecord
    \/ WriteNewline
    \/ DropRecord
    \/ EndOfInput
    \/ FinalWriteRecord
    \/ FinalWriteNewline
    \/ FinalDropRecord
    \/ Return
    \/ RerunRearranged

SpecRearranged == Init /\ [][NextRearranged]_vars

\* ------------------------------------------------------------------------
\* main: the command-line driver around filter_conllu_stream
\* ------------------------------------------------------------------------
\* the path names a command line can give: the input file, a symbolic link
\* to it, a second directory entry (hard link) of it, another file, and a
\* name that no file has
Paths == {"in.conllu", "symlink", "hardlink", "out.conllu", "missing"}

\* Path(p).resolve(): symbolic links are followed, any other name stays
Resolve(p) == IF p = "symlink" THEN "in.conllu" ELSE p

\* the file a path name opens
FileOf(p) ==
    IF Resolve(p) \in {"in.conllu", "hardlink"} THEN "file_in"
    ELSE IF Resolve(p) = "out.conllu" THEN "file_out"
    ELSE "file_new"

Files == {"file_in", "file_out", "file_new"}

\* the content of a file that does not exist
Absent == <<"absent">>

\* contents of the input file
MainInputs ==
    {LineToken \o LineBlank \o LineTextD \o LineBlank,
     <<"a">>,
     TextMarker \o <<"D">>}

\* what may be on the disk when main starts
Disks ==
    {d \in [Files -> MainInputs \cup {Absent, LineToken \o LineBlank}] :
        /\ d["file_in"] \in MainInputs
        /\ d["file_out"] \in {Absent, LineToken \o LineBlank}
        /\ d["file_new"] = Absent}

\* Path(p).exists()
Exists(p) == disk[FileOf(p)] # Absent

\* variant: the two arguments are compared as given
SamePath_unresolved(a, b) == a = b

\* Path(args.input).resolve() == Path(args.output).resolve()
SamePath(a, b) == Resolve(a) = Resolve(b)

\* after parser.parse_args() and the loading of the patterns
InitMain ==
    /\ argv \in [input : Paths, output : Paths]
    /\ disk \in Disks
    /\ patterns \in PatternLists
    /\ infile = <<>>
    /\ pos = 0
    /\ line = <<>>
    /\ current_record = <<>>
    /\ outfile = <<>>
    /\ total = 0
    /\ removed = 0
    /\ pc = "main"
    /\ run = 1
    /\ returned = <<>>
    /\ records = <<>>
    /\ text = <<>>
    /\ result = None
    /\ written = <<>>

\* if not Path(args.input).exists(): sys.exit(...)
MainInputMissing ==
    /\ pc = "main"
    /\ ~Exists(argv.input)
    /\ pc' = "exit_missing"
    /\ UNCHANGED <<infile, patterns, pos, line, current_record, outfile, total,
                   removed, run, returned, records, text, result, written,
                   argv, disk>>

\* if Path(args.input).resolve() == Path(args.output).resolve(): sys.exit(...)
MainSamePath ==
    /\ pc = "main"
    /\ Exists(argv.input)
    /\ SamePath(argv.input, argv.output)
    /\ pc' = "exit_same"
    /\ UNCHANGED <<infile, patterns, pos, line, current_record, outfile, total,
                   removed, run, returned, records, text, result, written,
                   argv, disk>>

\* filter_conllu_stream(args.input, args.output, patterns) up to its loop:
\* the input is opened for reading and the output for writing, which creates
\* or truncates the output's file; when both names open one file, the reads
\* that follow find it empty.  outfile is what is written to the output from
\* here on.
MainCall ==
    /\ pc = "main"
    /\ Exists(argv.input)
    /\ ~SamePath(argv.input, argv.output)
    /\ disk' = [disk EXCEPT ![FileOf(argv.output)] = <<>>]
    /\ infile' = disk'[FileOf(argv.input)]
    /\ outfile' = <<>>
    /\ pc' = "loop"
    /\ UNCHANGED <<patterns, pos, line, current_record, total, removed, run,
                   returned, records, text, result, written, argv>>

NextMain ==
    \/ MainInputMissing
    \/ MainSamePath
    \/ MainCall
    \/ ReadLine
    \/ WriteRecord
    \/ WriteNewline
    \/ DropRecord
    \/ EndOfInput
    \/ FinalWriteRecord
    \/ FinalWriteNewline
    \/ FinalDropRecord
    \/ Return

SpecMain == InitMain /\ [][NextMain]_vars

\* the loop and the steps after it are never suspended: whatever step is
\* possible is eventually taken
SpecFair == Init /\ [][Next]_vars /\ WF_vars(Next)

\* ------------------------------------------------------------------------
\* Direct calls of the two helpers, on arguments that need not come from a
\* file: lines may carry "\r", trailing spaces, or a near-miss of the marker
\* ------------------------------------------------------------------------
\* the variables of filter_conllu_stream, which a direct call does not use
StreamIdle ==
    /\ infile = <<>>
    /\ pos = 0
    /\ line = <<>>
    /\ outfile = <<>>
    /\ total = 0
    /\ removed = 0
    /\ run = 1
    /\ returned = <<>>
    /\ records = <<>>
    /\ written = <<>>
    /\ argv = <<>>
    /\ disk = <<>>

ExtractLinePool ==
    {TextMarker \o <<"D", LF>>,
     TextMarker \o <<"a", CR, LF>>,
     TextMarker \o <<"D", SP, LF>>,
     TextMarker \o <<LF>>,
     TextMarker,
     TextMarker \o <<"a", LF, CR, CR>>,
     <<"#", SP, "t", "e", "x", "t", SP, "=", "D", LF>>,
     <<SP>> \o TextMarker \o <<"D", LF>>,
     <<"a", LF>>,
     <<"#", SP, "t", "e", "x", "t", LF>>}

ExtractInputs == BoundedSeqs(ExtractLinePool, MaxRecordLines)

InitExtract ==
    /\ StreamIdle
    /\ current_record \in ExtractInputs
    /\ patterns = <<>>
    /\ text = <<>>
    /\ result = None
    /\ pc = "call"

CallExtract ==
    /\ pc = "call"
    /\ result' = extract_text_from_record(current_record)
    /\ pc' = "returned"
    /\ UNCHANGED <<infile, patterns, pos, line, current_record, outfile, total,
                   removed, run, returned, records, text,
                   written, argv, disk>>

SpecExtract == InitExtract /\ [][CallExtract]_vars

MatchTextPool ==
    {<<>>, <<"D">>, <<"D", "a">>, <<"a", "D">>, <<"d", "a">>, <<SP, "D">>}

MatchPatternPool == {<<"D">>, <<"D", "a">>, <<"D", "a", "a">>, <<>>}

InitMatch ==
    /\ StreamIdle
    /\ current_record = <<>>
    /\ text \in MatchTextPool
    /\ patterns \in BoundedSeqs(MatchPatternPool, MaxPatterns)
    /\ result = FALSE
    /\ pc = "call"

CallMatch ==
    /\ pc = "call"
    /\ result' = matches_boilerplate(text, patterns)
    /\ pc' = "returned"
    /\ UNCHANGED <<infile, patterns, pos, line, current_record, outfile, total,
                   removed, run, returned, records, text,
                   written, argv, disk>>

SpecMatch == InitMatch /\ [][CallMatch]_vars

\* ------------------------------------------------------------------------
\* Reference notions used to state the properties.  They are written
\* directly over the input text, without the operators of the model above.
\* ------------------------------------------------------------------------
\* a line made of whitespace only (the line terminator included)
Blank(l) == \A i \in DOMAIN l : l[i] \in Whitespace

\* a line of length 0 once its "\r" and "\n" characters are taken off
EmptyButTerminator(l) == \A i \in DOMAIN l : l[i] \in LineTerminators

\* the lines read so far in the current invocation
ConsumedLines == AllLines(SubSeq(infile, 1, pos))

\* indices at which a maximal group of non-blank lines starts
GroupStarts(ls) ==
    {i \in DOMAIN ls : ~Blank(ls[i]) /\ (i = 1 \/ Blank(ls[i - 1]))}

GroupEnd(ls, i) ==
    CHOOSE j \in i..Len(ls) :
        /\ \A k \in i..j : ~Blank(ls[k])
        /\ j = Len(ls) \/ Blank(ls[j + 1])

\* the maximal groups of non-blank lines, in input order
Groups(ls) ==
    LET S == GroupStarts(ls)
        n == Cardinality(S)
        kth(k) == CHOOSE i \in S : Cardinality({j \in S : j < i}) = k - 1
    IN  [k \in 1..n |-> SubSeq(ls, kth(k), GroupEnd(ls, kth(k)))]

\* the last of the lines ls belongs to a group that is still open
OpenGroup(ls) == ls # <<>> /\ ~Blank(ls[Len(ls)])

\* the groups of the consumed lines ls that are complete: all of them once the
\* loop has seen the separator or the end of input, all but the open one before
CompleteGroups(ls) ==
    LET g == Groups(ls)
    IN  IF pc = "loop" /\ OpenGroup(ls) THEN SubSeq(g, 1, Len(g) - 1) ELSE g

\* the line carries the 9-character marker at its start
Marked(l) == Len(l) >= 9 /\ SubSeq(l, 1, 9) = TextMarker

HasTextLine(rec) == \E i \in DOMAIN rec : Marked(rec[i])

FirstMarked(rec) ==
    CHOOSE i \in DOMAIN rec : Marked(rec[i]) /\ \A j \in 1..(i - 1) : ~Marked(rec[j])

\* what follows the marker, up to the trailing run of "\r" and "\n"
FieldOf(l) ==
    LET rest == [i \in 1..(Len(l) - 9) |-> l[i + 9]]
        k == CHOOSE m \in 0..Len(rest) :
                 /\ m = 0 \/ rest[m] \notin LineTerminators
                 /\ \A j \in (m + 1)..Len(rest) : rest[j] \in LineTerminators
    IN  SubSeq(rest, 1, k)

\* s[0:len(p)] == p
IsPrefix(p, s) ==
    LET m == IF Len(p) < Len(s) THEN Len(p) ELSE Len(s)
    IN  SubSeq(s, 1, m) = p

\* the record has a text line whose field starts with some pattern
Boilerplate(rec, pats) ==
    /\ HasTextLine(rec)
    /\ \E i \in DOMAIN pats : IsPrefix(pats[i], FieldOf(rec[FirstMarked(rec)]))

Deciding == pc \in {"decide", "final_decide"}

Finishing == pc \in {"newline", "final_newline"}

Quiescent == pc \in {"loop", "return", "done"}

\* ------------------------------------------------------------------------
\* C1: a record handed to the decision is dropped (nothing written, removed
\* incremented, kept counter untouched) exactly when it has a "# text = "
\* line whose field starts with some pattern; every other record, in
\* particular one without such a line, is written and then counted as kept.
\* ------------------------------------------------------------------------
C1_FilterDecision ==
    [][/\ Deciding =>
            IF Boilerplate(current_record, patterns)
            THEN outfile' = outfile /\ removed' = removed + 1 /\ total' = total
            ELSE /\ Len(outfile') > Len(outfile)
                 /\ removed' = removed
                 /\ pc' \in {"newline", "final_newline"}
       /\ Finishing => total' = total + 1 /\ removed' = removed]_vars

\* a record without a text line is being written although a pattern list is
\* given, after another record has been dropped
C1_Witness ==
    /\ Finishing
    /\ ~HasTextLine(current_record)
    /\ patterns # <<>>
    /\ removed > 0

\* ------------------------------------------------------------------------
\* C2: at every step the two counters sum to the number of records of the
\* consumed input whose decision is complete, and the returned pair sums to
\* the number of records of the whole input.
\* ------------------------------------------------------------------------
Undecided(ls) ==
    IF pc \in {"return", "done"} THEN 0
    ELSE IF pc = "loop" THEN (IF OpenGroup(ls) THEN 1 ELSE 0)
    ELSE 1

C2_Conservation ==
    /\ LET ls == ConsumedLines
       IN  total + removed = Cardinality(GroupStarts(ls)) - Undecided(ls)
    /\ pc = "done" =>
          returned[run][1] + returned[run][2]
              = Cardinality(GroupStarts(AllLines(infile)))

C2_Witness ==
    /\ pc = "done"
    /\ run = 1
    /\ returned[1][1] > 0
    /\ returned[1][2] > 0

\* ------------------------------------------------------------------------
\* C3: the records handed to the decision are exactly the maximal groups of
\* non-blank lines of the consumed input, one record per group, in input
\* order; none is empty; when the function returns the whole input has been
\* consumed, so a last group without a following blank line is a record too.
\* ------------------------------------------------------------------------
C3_Segmentation ==
    /\ records = CompleteGroups(ConsumedLines)
    /\ \A k \in DOMAIN records : records[k] # <<>>
    /\ pc \in {"return", "done"} => pos = Len(infile)
    /\ Deciding => current_record = records[Len(records)]

\* two records were separated by two blank lines, and the second one ended
\* at the end of input without a blank line
C3_Witness ==
    /\ pc = "return"
    /\ Len(records) = 2
    /\ \E i \in 1..(Len(ConsumedLines) - 1) :
          Blank(ConsumedLines[i]) /\ Blank(ConsumedLines[i + 1])
    /\ ~Blank(ConsumedLines[Len(ConsumedLines)])

\* ------------------------------------------------------------------------
\* C4 (as stated): a line that was read is treated as a separator, that is
\* not appended to the current record, exactly when it has length 0 once
\* "\r" and "\n" are stripped; a line of spaces only is appended.
\* ------------------------------------------------------------------------
C4_SeparatorOnlyTrulyEmpty ==
    [][pos' > pos =>
          IF EmptyButTerminator(line')
          THEN current_record' = current_record
          ELSE current_record' = Append(current_record, line')]_vars

\* ------------------------------------------------------------------------
\* C4 (amended): a line that was read is treated as a separator exactly when
\* it is empty once all leading and trailing whitespace is stripped, so a
\* line of spaces only is a separator as well and is not appended; every
\* other line is appended to the current record unchanged.
\* ------------------------------------------------------------------------
C4_SeparatorIsWhitespaceOnly ==
    [][pos' > pos =>
          IF Blank(line')
          THEN /\ current_record' = current_record
               /\ current_record # <<>> => pc' = "decide"
          ELSE current_record' = Append(current_record, line')]_vars

\* a line of spaces only has just closed a record
C4_Witness ==
    /\ pc = "decide"
    /\ line = LineSpaces
    /\ current_record # <<>>

\* ------------------------------------------------------------------------
\* C5: a kept record is written as the characters of its lines exactly as
\* they stand in the input (terminators included, in order), and then exactly
\* one "\n" is written, whatever separated the record from what follows.
\* ------------------------------------------------------------------------
\* the characters of the input from the first line of the last group
\* through its last line
RawLastRecord ==
    LET ls == ConsumedLines
        s  == CHOOSE i \in GroupStarts(ls) : \A j \in GroupStarts(ls) : j <= i
        e  == GroupEnd(ls, s)
        before == Len(Join(SubSeq(ls, 1, s - 1)))
        upto   == Len(Join(SubSeq(ls, 1, e)))
    IN  SubSeq(infile, before + 1, upto)

C5_LineFidelity ==
    [][/\ (Deciding /\ ~Boilerplate(current_record, patterns)) =>
            outfile' = outfile \o RawLastRecord
       /\ Finishing =>
            /\ outfile' = outfile \o <<LF>>
            /\ pc' \in {"loop", "return"}
       /\ ~(Deciding \/ Finishing \/ pc = "done") => outfile' = outfile]_vars

\* a kept record of two lines, closed by a run of two separator lines, has
\* been written with its newline
C5_Witness ==
    /\ pc = "loop"
    /\ total = 1
    /\ Len(records) = 1
    /\ Len(records[1]) = 2
    /\ Len(ConsumedLines) = 4
    /\ outfile # <<>>

\* ------------------------------------------------------------------------
\* C6: whenever no write is in progress the output is the concatenation, in
\* input order, of the blocks of the complete records that are not
\* boilerplate; a dropped record contributes no character at all.
\* ------------------------------------------------------------------------
RECURSIVE KeptBlocks(_, _)
KeptBlocks(groups, pats) ==
    IF groups = <<>> THEN <<>>
    ELSE (IF Boilerplate(Head(groups), pats) THEN <<>>
          ELSE Join(Head(groups)) \o <<LF>>)
         \o KeptBlocks(Tail(groups), pats)

C6_OrderNoTrace ==
    Quiescent => outfile = KeptBlocks(CompleteGroups(ConsumedLines), patterns)

\* a dropped record came before a kept one, and the output is not empty
C6_Witness ==
    /\ pc = "done"
    /\ run = 1
    /\ Len(records) = 2
    /\ Boilerplate(records[1], patterns)
    /\ ~Boilerplate(records[2], patterns)
    /\ outfile # <<>>

\* ------------------------------------------------------------------------
\* C7: for every input, also one whose last line has no terminator, once a
\* kept record is written the output ends with that record's lines followed
\* by one blank line (an empty line after the record's last line).
\* ------------------------------------------------------------------------
C7_BlankLineAfterRecord ==
    [][Finishing =>
          LET ol == AllLines(outfile')
              n  == Len(current_record)
          IN  /\ Len(ol) >= n + 1
              /\ ol[Len(ol)] = <<LF>>
              /\ \A i \in 1..n :
                    IsPrefix(current_record[i], ol[Len(ol) - 1 - n + i])]_vars

\* ------------------------------------------------------------------------
\* C8: a second run with the same patterns on the output of the first run
\* removes nothing.
\* ------------------------------------------------------------------------
C8_Idempotence ==
    /\ run = 2 => removed = 0
    /\ (run = 2 /\ pc = "done") => returned[2][2] = 0

\* the first run removed a record and kept one, and the second run is over
C8_Witness ==
    /\ run = 2
    /\ pc = "done"
    /\ returned[1][2] > 0
    /\ returned[1][1] > 0
    /\ returned[2][1] > 0

C10_PrefixSemantics ==
    pc = "returned" =>
        /\ result = (\E i \in DOMAIN patterns : IsPrefix(patterns[i], text))
        /\ patterns = <<>> => result = FALSE
        /\ (\A i \in DOMAIN patterns : Len(text) < Len(patterns[i])) =>
              result = FALSE

\* only the second pattern is a prefix of the text, and the first is longer
\* than the text
C10_Witness ==
    /\ pc = "returned"
    /\ Len(patterns) = 2
    /\ Len(patterns[1]) > Len(text)
    /\ IsPrefix(patterns[2], text)
    /\ patterns[2] # <<>>
    /\ result = TRUE

\* ------------------------------------------------------------------------
\* C11: when the function has returned, the first component of the result is
\* the number of record blocks found in the output file and the second is
\* the number of records of the input for which no block was written.
\* ------------------------------------------------------------------------
\* the number of maximal groups of non-blank lines in a text
NumGroups(content) == Cardinality(GroupStarts(AllLines(content)))

C11_RunResult ==
    pc = "done" =>
        /\ returned[run][1] = NumGroups(outfile)
        /\ returned[run][2] = NumGroups(infile) - NumGroups(outfile)
        /\ returned[run][2] =
              Cardinality({k \in DOMAIN records : Boilerplate(records[k], patterns)})

\* a run returned with different numbers of kept and removed records
C11_Witness ==
    /\ pc = "done"
    /\ run = 1
    /\ returned[1][1] = 2
    /\ returned[1][2] = 0
    /\ patterns # <<>>

\* ------------------------------------------------------------------------
\* C12: as the docstring says, the function returns (total_records,
\* removed_records): the first component is the number of records of the
\* input, the second the number of records removed.
\* ------------------------------------------------------------------------
C12_ReturnsTotalRecords ==
    pc = "done" =>
        /\ returned[run][1] = NumGroups(infile)
        /\ returned[run][2] =
              Cardinality({k \in DOMAIN records : Boilerplate(records[k], patterns)})

\* ------------------------------------------------------------------------
\* C14 (as stated): the buffer holds lines of at most one record, the one
\* being accumulated, and it is empty immediately after each record's
\* decision is applied: whenever no record is being accumulated or decided.
\* ------------------------------------------------------------------------
\* the buffer is empty or holds the lines read so far of the last group g[n]
HoldsOneRecord(g) ==
    current_record # <<>> => (g # <<>> /\ current_record = g[Len(g)])

C14_BufferEmptyAfterEveryDecision ==
    LET ls == ConsumedLines
    IN  /\ HoldsOneRecord(Groups(ls))
        /\ (pc \in {"return", "done"} \/ (pc = "loop" /\ ~OpenGroup(ls))) =>
              current_record = <<>>

\* ------------------------------------------------------------------------
\* C14 (amended): the buffer holds lines of at most one record, the one being
\* accumulated; it is empty immediately after the decision on every record
\* that a separator line closed, while after the decision on a last record
\* closed by the end of input it still holds that record's lines when the
\* function returns; and no line of record k+1 has been pulled from the
\* input as long as the decision on record k (counter update and, if kept,
\* its write) is not complete.
\* ------------------------------------------------------------------------
C14_Streaming ==
    LET ls == ConsumedLines
        g  == Groups(ls)
    IN  /\ HoldsOneRecord(g)
        /\ (pc = "loop" /\ ~OpenGroup(ls)) => current_record = <<>>
        /\ (pc \in {"return", "done"} /\ OpenGroup(ls)) => current_record = g[Len(g)]
        /\ total + removed >= Len(g) - 1
        /\ total + removed < Len(g) =>
              /\ current_record = g[Len(g)]
              /\ outfile \in {KeptBlocks(SubSeq(g, 1, Len(g) - 1), patterns),
                              KeptBlocks(SubSeq(g, 1, Len(g) - 1), patterns)
                                  \o Join(g[Len(g)])}

\* the function is about to return after a second record that the end of
\* input closed: the buffer still holds it, and held the first one before
C14_Witness ==
    /\ pc = "return"
    /\ Len(records) = 2
    /\ current_record = records[2]
    /\ records[1] # records[2]

\* ------------------------------------------------------------------------
\* C15: during a run the output only grows at its end, by the text of one
\* record or by one newline per step; in every state the output written so
\* far is a prefix of the final output for this input, and it consists of
\* complete blocks of kept records followed by at most one incomplete block
\* (a kept record's lines whose closing newline is not written yet).
\* ------------------------------------------------------------------------
BlocksThenPartial ==
    LET G == Groups(AllLines(infile))
    IN  /\ IsPrefix(outfile, KeptBlocks(G, patterns))
        /\ \E m \in 0..Len(G) :
              LET whole == KeptBlocks(SubSeq(G, 1, m), patterns)
              IN  \/ outfile = whole
                  \/ /\ m < Len(G)
                     /\ ~Boilerplate(G[m + 1], patterns)
                     /\ outfile = whole \o Join(G[m + 1])

C15_AppendOnly ==
    /\ []BlocksThenPartial
    /\ [][pc # "done" =>
            /\ IsPrefix(outfile, outfile')
            /\ \/ outfile' = outfile
               \/ outfile' = outfile \o <<LF>>
               \/ (Deciding /\ outfile' = outfile \o Join(current_record))]_vars

\* the first block is complete and the lines of a second kept record are
\* written, without their closing newline yet
C15_Witness ==
    /\ Finishing
    /\ run = 1
    /\ total = 1
    /\ Len(records) = 2
    /\ outfile = KeptBlocks(<<records[1]>>, patterns) \o Join(records[2])

\* ------------------------------------------------------------------------
\* C16: every invocation eventually returns; until then the position in the
\* input never moves back, and each step that moves it reads exactly the
\* next line (up to and including the next newline, or to the end of the
\* input); on return the whole input has been consumed; for an empty input
\* the result is (0, 0) and nothing is written.
\* ------------------------------------------------------------------------
ReadsNextLine ==
    /\ pos' > pos
    /\ line' = SubSeq(infile, pos + 1, pos')
    /\ \A i \in (pos + 1)..(pos' - 1) : infile[i] # LF
    /\ infile[pos'] = LF \/ pos' = Len(infile)

C16_SinglePassTermination ==
    /\ (pc # "done") ~> (pc = "done")
    /\ [][pc # "done" => (pos' = pos \/ ReadsNextLine)]_vars
    /\ [](pc = "done" =>
            /\ pos = Len(infile)
            /\ Len(returned) = run
            /\ infile = <<>> => (returned[run] = <<0, 0>> /\ outfile = <<>>))

\* the function has returned after reading four lines
C16_Witness ==
    /\ pc = "done"
    /\ run = 1
    /\ pos = Len(infile)
    /\ Len(ConsumedLines) = 4
    /\ returned[1][1] + returned[1][2] = 2

\* ------------------------------------------------------------------------
\* C18: a second run with the same patterns on the output of the first run
\* writes an output identical to its input (the first output), and keeps as
\* many records as the first run kept.
\* ------------------------------------------------------------------------
C18_Fixpoint ==
    (run = 2 /\ pc = "done") =>
        /\ outfile = infile
        /\ returned[2][1] = returned[1][1]

\* ------------------------------------------------------------------------
\* C19: in every state the output does not begin with a blank line and has
\* no two consecutive blank lines; each blank line in it is the single "\n"
\* written after a kept record, so there are at most as many as blocks
\* written, and no whitespace-only line of the input is found in the output.
\* ------------------------------------------------------------------------
C19_WellFormedOutput ==
    LET ol == AllLines(outfile)
        blanks == {i \in DOMAIN ol : Blank(ol[i])}
    IN  /\ 1 \notin blanks
        /\ \A i \in blanks : (i - 1) \notin blanks /\ ol[i] = <<LF>>
        /\ Cardinality(blanks) <= total
        /\ \A i \in blanks : i = Len(ol) \/ ~Blank(ol[i + 1])

\* the input began with blank lines and had two separator lines, one of
\* spaces, after a kept record: the output is the record and one empty line
C19_Witness ==
    /\ pc = "done"
    /\ run = 1
    /\ Len(ConsumedLines) = 4
    /\ Blank(ConsumedLines[1])
    /\ line = LineSpaces
    /\ Len(AllLines(outfile)) = 2

\* ------------------------------------------------------------------------
\* C17: the decision on every record is the one that any reordering of the
\* pattern list, and the list with an entry repeated, gives; a second run on
\* the same input with the pattern list so rearranged writes the same
\* output and returns the same pair of counts as the first run.
\* ------------------------------------------------------------------------
C17_PatternOrderIrrelevant ==
    /\ Deciding =>
          \A q \in Rearranged(patterns) :
              KeepRecord(current_record, q) = KeepRecord(current_record, patterns)
    /\ (run = 2 /\ pc = "done") =>
          /\ written[2] = written[1]
          /\ returned[2] = returned[1]

\* the second run used the two patterns in the other order; each run dropped
\* one record and kept one
C17_Witness ==
    /\ run = 2
    /\ pc = "done"
    /\ Len(patterns) = 2
    /\ patterns[1] # patterns[2]
    /\ returned[1] = <<1, 1>>
    /\ written[2] # <<>>

\* the two arguments name one path once symbolic links are followed
ResolveToSamePath == Resolve(argv.input) = Resolve(argv.output)

====
